---------------------------- MODULE Spec2Model ----------------------------
(***************************************************************************)
(* A model of jedi/api/completion.py: the completion dispatcher            *)
(* (Completion.complete / _complete_python), the flow-ancestor walk that   *)
(* adds continuation keywords, the __getattr__ heuristic, and the          *)
(* candidate registry (filter_names and the final sort).                   *)
(*                                                                         *)
(* Text is a sequence of one-character strings, so that startswith,        *)
(* lower, isalpha and slicing are computed and not assumed.  Collaborators *)
(* that live outside completion.py (parser, inference, importer, ...)      *)
(* answer with values drawn from small sets at the moment they are called. *)
(***************************************************************************)
EXTENDS Integers, Sequences, FiniteSets, TLC

VARIABLES
    pc,                \* position of the request in complete/_complete_python
    position,          \* self._position, a <<line, column>> pair
    leaves,            \* the leaf at the position followed by its previous leaves
    like_name,         \* self._like_name
    fuzzy,             \* the fuzzy argument of complete
    settings,          \* jedi.settings read by filter_names
    string,            \* what _extract_string_while_in_string returned
    stack,             \* self.stack: None or the parse stack
    allowed,           \* allowed_transitions
    current_line,      \* code_lines[line - 1][:column]
    chain,             \* ancestors of previous_leaf, innermost first
    stmt,              \* the flow walk's stmt, an index into chain
    indent,            \* the flow walk's indent
    completion_names,  \* completion_names of _complete_python
    calls,             \* the collaborators and resolvers invoked, in order
    world,             \* what the inference provider knows about the values
    cstack,            \* activation records of the trailer/getattr recursion
    result,            \* what complete returned
    outcome            \* "pending", "returned" or the exception raised

vars == <<pc, position, leaves, like_name, fuzzy, settings, string, stack,
          allowed, current_line, chain, stmt, indent, completion_names,
          calls, world, cstack, result, outcome>>

requestVars == <<position, leaves, like_name, fuzzy, settings>>
walkVars    == <<chain, stmt, indent>>
heapVars    == <<world, cstack>>

---------------------------------------------------------------------------
(* Bounds of the model.                                                    *)

MaxNames == 3          \* longest list of raw names handed to filter_names
MaxAncestors == 2      \* deepest chain of ancestors above previous_leaf
RecursionLimit == 6    \* depth at which the interpreter raises RecursionError

---------------------------------------------------------------------------
(* Text.                                                                   *)

None == <<"None">>     \* Python's None where a text is expected

Upper == <<"A","B","C","D","E","F","G","H","I","J","K","L","M",
           "N","O","P","Q","R","S","T","U","V","W","X","Y","Z">>
Lower == <<"a","b","c","d","e","f","g","h","i","j","k","l","m",
           "n","o","p","q","r","s","t","u","v","w","x","y","z">>
\* The characters the model uses, in code point order.
Chars == <<"\t", " ", "\"", "'", "(", "+", ",", ".", ";", "=", "@">>
         \o Upper \o <<"[", "_">> \o Lower

Range(s) == {s[i] : i \in 1..Len(s)}

Ord(c) == CHOOSE i \in 1..Len(Chars) : Chars[i] = c

IsAlphaChar(c) == c \in Range(Upper) \cup Range(Lower)

\* str.isalpha: every character alphabetic and at least one character
isalpha(s) == Len(s) > 0 /\ \A i \in 1..Len(s) : IsAlphaChar(s[i])

LowerChar(c) ==
    IF c \in Range(Upper)
    THEN Lower[CHOOSE i \in 1..Len(Upper) : Upper[i] = c]
    ELSE c

\* str.lower
lower(s) == [i \in 1..Len(s) |-> LowerChar(s[i])]

\* str.startswith
startswith(s, p) == Len(p) <= Len(s) /\ SubSeq(s, 1, Len(p)) = p

\* s[n:]
SliceFrom(s, n) == IF n >= Len(s) THEN <<>> ELSE SubSeq(s, n + 1, Len(s))

\* s[-n:]
LastN(s, n) == IF Len(s) <= n THEN s ELSE SubSeq(s, Len(s) - n + 1, Len(s))

\* s < t for Python strings: lexicographic by code point
RECURSIVE StrLess(_, _)
StrLess(s, t) ==
    IF t = <<>> THEN FALSE
    ELSE IF s = <<>> THEN TRUE
    ELSE IF s[1] = t[1] THEN StrLess(Tail(s), Tail(t))
    ELSE Ord(s[1]) < Ord(t[1])

\* list.index of the first occurrence of c in s at or after position from,
\* 0 when there is none (str.find)
RECURSIVE Find(_, _, _)
Find(s, c, from) ==
    IF from > Len(s) THEN 0
    ELSE IF s[from] = c THEN from
    ELSE Find(s, c, from + 1)

---------------------------------------------------------------------------
(* Matching (jedi.api.helpers) and candidates (jedi.api.classes).          *)

start_match(s, like) == startswith(s, like)

\* every character of like appears in s, in order
RECURSIVE fuzzy_match(_, _)
fuzzy_match(s, like) ==
    IF like = <<>> THEN TRUE
    ELSE LET p == Find(s, like[1], 1)
         IN  IF p = 0 THEN FALSE
             ELSE fuzzy_match(SliceFrom(s, p), Tail(like))

\* A name entry: its text, where it comes from, and what classes.Completion
\* appends to the completion ("=" for a keyword argument, "(" for a function).
Name(s, origin, append) == [string_name |-> s, origin |-> origin, append |-> append]

\* classes.Completion(inference_state, name, stack, like_name_length, is_fuzzy)
Completion(name, like_name_length, is_fuzzy) ==
    [ name     |-> name.string_name,
      complete |-> IF is_fuzzy THEN None
                   ELSE SliceFrom(name.string_name, like_name_length) \o name.append,
      _name    |-> name,
      _same_name_completions |-> <<>> ]

---------------------------------------------------------------------------
(* filter_names.                                                           *)

Matches(name, like, fz, st) ==
    LET like2 == IF st.case_insensitive_completion THEN lower(like) ELSE like
        str   == IF st.case_insensitive_completion
                 THEN lower(name.string_name) ELSE name.string_name
    IN  IF fz THEN fuzzy_match(str, like2) ELSE start_match(str, like2)

MergeAlways(k, comp_dct, st) == k \in DOMAIN comp_dct

\* line 55: k in comp_dct and settings.no_completion_duplicates
MergeDuplicate(k, comp_dct, st) ==
    k \in DOMAIN comp_dct /\ st.no_completion_duplicates

\* The for loop of filter_names from its i-th name on.  comp_dct maps a key to
\* the index, in the list of yielded candidates, of the candidate it holds.
RECURSIVE FilterLoop(_, _, _, _, _, _, _)
FilterLoop(names, i, like, fz, st, comp_dct, yielded) ==
    IF i > Len(names) THEN yielded
    ELSE IF ~Matches(names[i], like, fz, st)
    THEN FilterLoop(names, i + 1, like, fz, st, comp_dct, yielded)
    ELSE LET new == Completion(names[i], Len(like), fz)
             k   == <<new.name, new.complete>>
         IN  IF MergeDuplicate(k, comp_dct, st)
             THEN FilterLoop(names, i + 1, like, fz, st, comp_dct,
                    [yielded EXCEPT ![comp_dct[k]]._same_name_completions =
                                        Append(@, new)])
             ELSE FilterLoop(names, i + 1, like, fz, st,
                    (k :> (Len(yielded) + 1)) @@ comp_dct,
                    Append(yielded, new))

filter_names(names, like, fz, st) ==
    FilterLoop(names, 1, like, fz, st, <<>>, <<>>)

---------------------------------------------------------------------------
(* The final sort of complete.                                             *)

SortKeyCaseSensitive(c) ==
    <<startswith(c.name, <<"_", "_">>), startswith(c.name, <<"_">>), c.name>>

\* lines 121-123: (name.startswith('__'), name.startswith('_'), name.lower())
SortKey(c) ==
    <<startswith(c.name, <<"_", "_">>), startswith(c.name, <<"_">>), lower(c.name)>>

\* tuple comparison, False < True
KeyLess(a, b) ==
    IF a[1] /= b[1] THEN b[1]
    ELSE IF a[2] /= b[2] THEN b[2]
    ELSE StrLess(a[3], b[3])

\* c goes behind every candidate whose key is not greater: sorted is stable
RECURSIVE InsertSorted(_, _)
InsertSorted(c, s) ==
    IF s = <<>> THEN <<c>>
    ELSE IF KeyLess(SortKey(c), SortKey(s[1])) THEN <<c>> \o s
    ELSE <<s[1]>> \o InsertSorted(c, Tail(s))

RECURSIVE sorted(_)
sorted(s) ==
    IF s = <<>> THEN <<>>
    ELSE InsertSorted(s[Len(s)], sorted(SubSeq(s, 1, Len(s) - 1)))

---------------------------------------------------------------------------
(* Values that stand for "nothing yet".                                    *)

NoStack  == <<>>                         \* self.stack = None
NoString == [found |-> FALSE, text |-> <<>>]
NoWorld  == [values |-> {}, instances |-> {}, stubs |-> {}, getattr |-> <<>>,
             getattribute |-> <<>>, converted |-> <<>>, inferred |-> <<>>]

Settings == [case_insensitive_completion : BOOLEAN,
             no_completion_duplicates : BOOLEAN]

SeqsUpTo(S, n) == UNION {[1..k -> S] : k \in 0..n}

\* an entry of calls: the function called, one argument, the names it
\* returned and (for the signatures callback) the signatures themselves
Call(fn, arg, ret, data) == [fn |-> fn, arg |-> arg, ret |-> ret, data |-> data]

CalledFns == {calls[i].fn : i \in 1..Len(calls)}

---------------------------------------------------------------------------
(* Positions and leaves (parso).                                           *)

\* tuple comparison of two <<line, column>> pairs
PosLess(a, b) == a[1] < b[1] \/ (a[1] = b[1] /\ a[2] < b[2])
PosLE(a, b) == a = b \/ PosLess(a, b)

Leaf(type, prefix, value, start_pos, end_pos) ==
    [type |-> type, prefix |-> prefix, value |-> value,
     start_pos |-> start_pos, end_pos |-> end_pos]

Quotes == {"\"", "'"}
IsWordChar(c) == IsAlphaChar(c) \/ c = "_"

\* the number of leading \w characters of s
RECURSIVE WordLen(_)
WordLen(s) == IF s /= <<>> /\ IsWordChar(s[1]) THEN 1 + WordLen(Tail(s)) ELSE 0

\* line 419: group 1 of ^\w*(\'{3}|"{3}|\'|") on a string leaf's value
QuoteOf(value) ==
    LET w == WordLen(value)
        q == value[w + 1]
    IN  IF Len(value) >= w + 3 /\ value[w + 2] = q /\ value[w + 3] = q
        THEN <<q, q, q>> ELSE <<q>>

\* match.end()
MatchEnd(value) == WordLen(value) + Len(QuoteOf(value))

\* parser_utils.cut_value_at_position: the leaf's value up to the position
RECURSIVE CutFrom(_, _, _)
CutFrom(value, at, pos) ==
    IF value = <<>> \/ ~PosLess(at, pos) THEN <<>>
    ELSE <<value[1]>> \o
         CutFrom(Tail(value),
                 IF value[1] = "\n" THEN <<at[1] + 1, 0>> ELSE <<at[1], at[2] + 1>>,
                 pos)

cut_value_at_position(leaf, pos) == CutFrom(leaf.value, leaf.start_pos, pos)

get_code(leaf) == leaf.prefix \o leaf.value

RECURSIVE JoinCode(_)
JoinCode(ls) == IF ls = <<>> THEN <<>> ELSE get_code(ls[1]) \o JoinCode(Tail(ls))

\* lines 427-433: the while loop over the leaves of the position's line; ls
\* is the current leaf followed by its previous leaves, seen the leaves
\* inserted so far
RECURSIVE ErrorLeafLoop(_, _, _)
ErrorLeafLoop(ls, seen, pos) ==
    IF ls = <<>> \/ ls[1].start_pos[1] /= pos[1] THEN NoString
    ELSE IF ls[1].type = "error_leaf" /\ Range(ls[1].value) \cap Quotes /= {}
    THEN [found |-> TRUE, text |-> JoinCode(seen)]
    ELSE ErrorLeafLoop(Tail(ls), <<ls[1]>> \o seen, pos)

\* lines 414-433
extract_string_while_in_string(ls, pos) ==
    LET leaf == ls[1]
    IN  IF PosLess(pos, leaf.start_pos) THEN NoString
        ELSE IF leaf.type = "string"
        THEN LET e == MatchEnd(leaf.value)
                 quote == QuoteOf(leaf.value)
             IN  IF leaf.start_pos[1] = pos[1] /\ pos[2] < leaf.start_pos[2] + e
                 THEN NoString
                 ELSE IF leaf.end_pos[1] = pos[1]
                         /\ pos[2] > leaf.end_pos[2] - Len(quote)
                 THEN NoString
                 ELSE [found |-> TRUE,
                       text |-> SliceFrom(cut_value_at_position(leaf, pos), e)]
        ELSE ErrorLeafLoop(ls, <<>>, pos)

---------------------------------------------------------------------------
(* Grammar symbols and tree nodes.                                         *)

\* an allowed transition: a string of the grammar ('if', '(') ...
Sym(text) == [str |-> TRUE, v |-> text]
\* ... or a token type (PythonTokenTypes.NAME)
Tok(text) == [str |-> FALSE, v |-> text]

NAME   == Tok(<<"N", "A", "M", "E">>)
INDENT == Tok(<<"I", "N", "D", "E", "N", "T">>)

kw_if      == <<"i", "f">>
kw_elif    == <<"e", "l", "i", "f">>
kw_else    == <<"e", "l", "s", "e">>
kw_except  == <<"e", "x", "c", "e", "p", "t">>
kw_finally == <<"f", "i", "n", "a", "l", "l", "y">>
kw_for     == <<"f", "o", "r">>
kw_await   == <<"a", "w", "a", "i", "t">>
kw_None    == <<"N", "o", "n", "e">>
kw_import  == <<"i", "m", "p", "o", "r", "t">>

\* children[0] of a node, as far as the code looks at it
Child(is_leaf, type, value, children) ==
    [is_leaf |-> is_leaf, type |-> type, value |-> value, children |-> children]

NoChild == Child(FALSE, "", "", <<>>)
LeafChild(value) == Child(TRUE, "keyword", value, <<>>)

\* a node of the tree above a leaf: its type, the column it starts at, its
\* first child and (for a funcdef) what get_decorators() answers
TreeNode(type, column, first, decorators) ==
    [type |-> type, column |-> column, first |-> first, decorators |-> decorators]

Root == TreeNode("file_input", 0, NoChild, <<>>)

FlowTypes == {"if_stmt", "for_stmt", "while_stmt", "try_stmt", "error_node"}

\* parso.tree.search_ancestor from the node at index from of the chain
\* (0: the leaf itself): the index of the nearest ancestor of one of the
\* types, 0 for None
RECURSIVE search_ancestor(_, _, _)
search_ancestor(ch, from, types) ==
    IF from + 1 > Len(ch) THEN 0
    ELSE IF ch[from + 1].type \in types THEN from + 1
    ELSE search_ancestor(ch, from + 1, types)

---------------------------------------------------------------------------
(* The flow-ancestor walk: lines 160-190.                                  *)

\* lines 178-182
StmtType(node) ==
    IF node.type = "error_node" /\ node.first.is_leaf
    THEN node.first.value \o "_stmt"
    ELSE node.type

ContinuationKeywordsNoFor(type_) ==
    IF type_ = "if_stmt" THEN <<Sym(kw_elif), Sym(kw_else)>>
    ELSE IF type_ = "try_stmt" THEN <<Sym(kw_except), Sym(kw_finally), Sym(kw_else)>>
    ELSE <<>>

\* lines 185-190
ContinuationKeywords(type_) ==
    IF type_ = "if_stmt" THEN <<Sym(kw_elif), Sym(kw_else)>>
    ELSE IF type_ = "try_stmt" THEN <<Sym(kw_except), Sym(kw_finally), Sym(kw_else)>>
    ELSE IF type_ = "for_stmt" THEN <<Sym(kw_else)>>
    ELSE <<>>

\* lines 160-169: 'if' is allowed, the indent, and the previous leaf
FlowEnter(Chains) ==
    /\ pc = "flow"
    /\ IF Sym(kw_if) \notin Range(allowed)
       THEN pc' = "keywords" /\ UNCHANGED walkVars
       ELSE LET leaf == leaves[1]
            IN  /\ indent' = IF ~(PosLE(leaf.start_pos, position)
                                  /\ PosLE(position, leaf.end_pos))
                             THEN leaf.start_pos[2]
                             ELSE position[2]
                /\ IF Len(leaves) < 2
                   THEN pc' = "keywords" /\ UNCHANGED <<chain, stmt>>
                   ELSE /\ chain' \in Chains
                        /\ stmt' = 0
                        /\ pc' = "flow_walk"
    /\ UNCHANGED <<requestVars, string, stack, allowed, current_line,
                   completion_names, calls, heapVars, result, outcome>>

\* lines 170-190: one turn of the while True loop
FlowStep ==
    /\ pc = "flow_walk"
    /\ LET next == search_ancestor(chain, stmt, FlowTypes)
       IN  IF next = 0
           THEN pc' = "keywords" /\ UNCHANGED <<allowed, stmt>>
           ELSE /\ stmt' = next
                /\ allowed' = IF chain[next].column = indent
                              THEN allowed \o ContinuationKeywords(StmtType(chain[next]))
                              ELSE allowed
                /\ pc' = pc
    /\ UNCHANGED <<requestVars, string, stack, current_line, chain, indent,
                   completion_names, calls, heapVars, result, outcome>>

---------------------------------------------------------------------------
(* Attribute completion: _complete_trailer_for_values and the __getattr__  *)
(* heuristic, lines 307-382.  The two functions call each other; cstack    *)
(* holds their activation records, innermost last.                         *)

Values == {"v1", "v2", "v3"}

\* a return statement of a __getattr__ function, as lines 355-375 look at it
ReturnStmt(type, expr_type, n_children, atom_value, arg_type, n_args, name_is_param, objects) ==
    [type |-> type, expr_type |-> expr_type, n_children |-> n_children,
     atom_value |-> atom_value, arg_type |-> arg_type, n_args |-> n_args,
     name_is_param |-> name_is_param, objects |-> objects]

\* return getattr(<objects>, name)
Delegating(objects) ==
    ReturnStmt("return_stmt", "atom_expr", 2, "getattr", "arglist", 3, TRUE, objects)

\* returns the heuristic must pass over
Decoys ==
    { ReturnStmt("keyword", "", 0, "", "", 0, FALSE, <<>>),                  \* return
      ReturnStmt("return_stmt", "name", 0, "", "", 0, FALSE, <<>>),          \* return x
      ReturnStmt("return_stmt", "atom", 3, "", "", 0, FALSE, <<>>),          \* return (getattr(o, n))
      ReturnStmt("return_stmt", "atom_expr", 3, "getattr", "arglist", 3, TRUE, <<"v2">>),  \* return getattr(o, n).a
      ReturnStmt("return_stmt", "atom_expr", 2, "foo", "arglist", 3, TRUE, <<"v2">>),      \* return foo(o, n)
      ReturnStmt("return_stmt", "atom_expr", 2, "getattr", "name", 0, TRUE, <<"v2">>),     \* return getattr(o)
      ReturnStmt("return_stmt", "atom_expr", 2, "getattr", "arglist", 2, TRUE, <<"v2">>),  \* return getattr(*o)
      ReturnStmt("return_stmt", "atom_expr", 2, "getattr", "arglist", 3, FALSE, <<"v2">>) }\* return getattr(o, x)

\* lines 355-375: the checks a return statement has to pass
Qualifies(r) ==
    /\ r.type = "return_stmt"
    /\ r.expr_type = "atom_expr"
    /\ ~(r.n_children /= 2 \/ r.atom_value /= "getattr")
    /\ ~(r.arg_type /= "arglist" \/ r.n_args < 3)
    /\ r.name_is_param

\* the return statements of all the functions, in the order the loops of
\* lines 350-352 meet them
RECURSIVE AllReturns(_)
AllReturns(functions) ==
    IF functions = <<>> THEN <<>>
    ELSE functions[1] \o AllReturns(Tail(functions))

\* the first statement that qualifies, 0 when none does
RECURSIVE FirstQualifying(_, _)
FirstQualifying(returns, i) ==
    IF i > Len(returns) THEN 0
    ELSE IF Qualifies(returns[i]) THEN i
    ELSE FirstQualifying(returns, i + 1)

\* lines 344-345: the __getattr__ functions, or else the __getattribute__ ones
SlotFunctions(w, instance) ==
    IF w.getattr[instance] /= <<>> THEN w.getattr[instance]
    ELSE w.getattribute[instance]

\* value.get_filters(...) and filter.values(): the members of a value
Members(v) == <<Name(<<"m">>, v, <<>>)>>

RECURSIVE MembersOf(_)
MembersOf(vs) == IF vs = <<>> THEN <<>> ELSE Members(vs[1]) \o MembersOf(Tail(vs))

\* lines 317-321: the members of the converted values that are not in values
RECURSIVE ConvertedMembers(_, _)
ConvertedMembers(python_values, values) ==
    IF python_values = <<>> THEN <<>>
    ELSE (IF python_values[1] \in Range(values) THEN <<>> ELSE Members(python_values[1]))
         \o ConvertedMembers(Tail(python_values), values)

ValuesFrame(values) == [fn |-> "values", values |-> values, i |-> 1, names |-> <<>>]
GetattrFrame(instance) == [fn |-> "getattr", values |-> <<instance>>, i |-> 0, names |-> <<>>]

Top == cstack[Len(cstack)]
Pop(n) == SubSeq(cstack, 1, Len(cstack) - n)

\* lines 301-305: _complete_trailer infers the values before the dot
TrailerEnter(Worlds) ==
    /\ pc = "trailer"
    /\ \E w \in Worlds :
          /\ world' = w
          /\ cstack' = <<ValuesFrame(w.inferred)>>
    /\ calls' = Append(calls, Call("trailer", "", <<>>, <<>>))
    /\ pc' = "trailer_values"
    /\ UNCHANGED <<requestVars, string, stack, allowed, current_line, walkVars,
                   completion_names, result, outcome>>

\* lines 310-315: one turn of the loop over the values
ValuesLoop ==
    /\ pc = "trailer_values"
    /\ Top.fn = "values"
    /\ Top.i <= Len(Top.values)
    /\ LET value == Top.values[Top.i]
           names == Top.names \o Members(value)
       IN  IF value \notin world.stubs /\ value \in world.instances
           THEN IF Len(cstack) + 1 > RecursionLimit
                THEN /\ outcome' = "RecursionError"
                     /\ pc' = "done"
                     /\ UNCHANGED cstack
                ELSE /\ cstack' = Append([cstack EXCEPT ![Len(cstack)].names = names],
                                         GetattrFrame(value))
                     /\ UNCHANGED <<pc, outcome>>
           ELSE /\ cstack' = [cstack EXCEPT ![Len(cstack)].names = names,
                                            ![Len(cstack)].i = @ + 1]
                /\ UNCHANGED <<pc, outcome>>
    /\ UNCHANGED <<requestVars, string, stack, allowed, current_line, walkVars,
                   completion_names, calls, world, result>>

\* lines 344-382: _complete_getattr up to its return
GetattrBody ==
    /\ pc = "trailer_values"
    /\ Top.fn = "getattr"
    /\ LET returns == AllReturns(SlotFunctions(world, Top.values[1]))
           q == FirstQualifying(returns, 1)
       IN  IF q = 0
           THEN \* return []
                /\ cstack' = [Pop(1) EXCEPT ![Len(cstack) - 1].i = @ + 1]
                /\ UNCHANGED <<pc, outcome>>
           ELSE \* return self._complete_trailer_for_values(objects)
                IF Len(cstack) + 1 > RecursionLimit
                THEN /\ outcome' = "RecursionError"
                     /\ pc' = "done"
                     /\ UNCHANGED cstack
                ELSE /\ cstack' = Append(cstack, ValuesFrame(returns[q].objects))
                     /\ UNCHANGED <<pc, outcome>>
    /\ UNCHANGED <<requestVars, string, stack, allowed, current_line, walkVars,
                   completion_names, calls, world, result>>

\* lines 317-322: the loop is over; the converted values, and the return, which
\* a calling _complete_getattr passes on to the loop that called it
ValuesReturn ==
    /\ pc = "trailer_values"
    /\ Top.fn = "values"
    /\ Top.i > Len(Top.values)
    /\ LET names == Top.names \o ConvertedMembers(world.converted, Top.values)
       IN  IF Len(cstack) = 1
           THEN /\ completion_names' = completion_names \o names
                /\ calls' = [calls EXCEPT ![Len(calls)].ret = names]
                /\ cstack' = <<>>
                /\ pc' = "signature"
           ELSE /\ cstack' = [Pop(2) EXCEPT ![Len(cstack) - 2].names = @ \o names,
                                            ![Len(cstack) - 2].i = @ + 1]
                /\ UNCHANGED <<pc, completion_names, calls>>
    /\ UNCHANGED <<requestVars, string, stack, allowed, current_line, walkVars,
                   world, result, outcome>>

\* what the inference provider may know: which values are instances and
\* stubs, their __getattr__ and __getattribute__ functions (each a list of
\* return statements), what convert_values answers, and the values inferred
\* before the dot
World(instances, stubs, getattr, getattribute, converted, inferred) ==
    [values |-> Values, instances |-> instances, stubs |-> stubs,
     getattr |-> getattr, getattribute |-> getattribute,
     converted |-> converted, inferred |-> inferred]

NoFunctions == [v \in Values |-> <<>>]

\* every value delegates to one value or to none
DelegationWorlds ==
    { World(instances, stubs,
            [v \in Values |-> IF d[v] = "none" THEN <<>> ELSE <<<<Delegating(<<d[v]>>)>>>>],
            NoFunctions, <<>>, inferred) :
        instances \in {Values, {"v1", "v2"}},
        stubs \in {{}, {"v3"}},
        d \in [Values -> Values \cup {"none"}],
        inferred \in {<<"v1">>, <<"v3", "v1">>} }

\* v1 delegates to v2 behind a return the heuristic must pass over
DecoyWorlds ==
    { World(Values, {},
            IF slot = "getattr" THEN [NoFunctions EXCEPT !["v1"] = fs] ELSE NoFunctions,
            IF slot = "getattr" THEN NoFunctions ELSE [NoFunctions EXCEPT !["v1"] = fs],
            converted, <<"v1">>) :
        slot \in {"getattr", "getattribute"},
        converted \in {<<>>, <<"v1">>, <<"v3">>},
        fs \in { <<<<decoy, Delegating(<<"v2">>)>>>> : decoy \in Decoys }
               \cup { <<<<decoy>>, <<Delegating(<<"v2">>)>>>> : decoy \in Decoys }
               \cup { <<<<decoy>>>> : decoy \in Decoys } }

AllWorlds == DelegationWorlds \cup DecoyWorlds

---------------------------------------------------------------------------
(* Attribute completion on its own: _complete_trailer, for every world.    *)

InitGetattr ==
    /\ pc = "trailer"
    /\ position = <<1, 2>>
    /\ leaves = <<Leaf("operator", <<>>, <<".">>, <<1, 1>>, <<1, 2>>),
                   Leaf("name", <<>>, <<"x">>, <<1, 0>>, <<1, 1>>)>>
    /\ like_name = <<>>
    /\ fuzzy = FALSE
    /\ settings = [case_insensitive_completion |-> TRUE,
                   no_completion_duplicates |-> TRUE]
    /\ string = NoString
    /\ stack = NoStack
    /\ allowed = <<NAME>>
    /\ current_line = <<"x", ".">>
    /\ chain = <<>>
    /\ stmt = 0
    /\ indent = 0
    /\ completion_names = <<>>
    /\ calls = <<>>
    /\ world = NoWorld
    /\ cstack = <<>>
    /\ result = <<>>
    /\ outcome = "pending"

NextGetattr == TrailerEnter(AllWorlds) \/ ValuesLoop \/ GetattrBody \/ ValuesReturn

SpecGetattr == InitGetattr /\ [][NextGetattr]_vars

\* C10: every request runs to completion, also when the expression a
\* __getattr__ delegates to infers to the instance that is being inspected:
\* the recursion between _complete_trailer_for_values and _complete_getattr
\* never exhausts the interpreter's stack.
C10_RunsToCompletion == outcome /= "RecursionError"

---------------------------------------------------------------------------
(* The parse stack and what _complete_python reads from it.                *)

\* a Keyword or Operator leaf: it compares equal to the string of its value
K(value) == [cmp |-> TRUE, value |-> value]
\* any other node of a stack frame
N(value) == [cmp |-> FALSE, value |-> value]

NodeIs(node, s) == node.cmp /\ node.value = s

Frame(nonterminal, nodes) == [nonterminal |-> nonterminal, nodes |-> nodes]

Last(s) == s[Len(s)]

\* line 202
Nonterminals(stk) == [i \in 1..Len(stk) |-> stk[i].nonterminal]

\* lines 204-209; a frame's dfa.from_rule is its nonterminal
RECURSIVE GatherNodes(_, _)
GatherNodes(stk, nodes) ==
    IF stk = <<>> THEN nodes
    ELSE GatherNodes(Tail(stk),
                     IF stk[1].nonterminal = "small_stmt" THEN <<>>
                     ELSE nodes \o stk[1].nodes)

\* lines 198-199
NamesAllowed(transitions) ==
    NAME \in Range(transitions) \/ INDENT \in Range(transitions)

HarvestsOnEmptyLine(line) == line = <<>>

\* lines 194-195
HarvestsKeywords(line) ==
    line = <<>>
    \/ (Last(line) \in {" ", "\t", ".", ";"} /\ LastN(line, 3) /= <<".", ".", ".">>)

KeywordName(k) == Name(k, "keyword", <<>>)

\* lines 282-285
RECURSIVE complete_keywords(_)
complete_keywords(transitions) ==
    IF transitions = <<>> THEN <<>>
    ELSE (IF transitions[1].str /\ isalpha(transitions[1].v)
          THEN <<KeywordName(transitions[1].v)>> ELSE <<>>)
         \o complete_keywords(Tail(transitions))

\* lines 247-258; "in 'parameters'" is a substring test, which among the
\* nonterminals of the grammar only 'parameters' passes
is_parameter_completion(stk) ==
    LET tos == Last(stk)
    IN  IF tos.nonterminal = "lambdef" /\ Len(tos.nodes) = 1 THEN "True"
        ELSE IF tos.nonterminal = "parameters" THEN "True"
        ELSE IF tos.nonterminal \notin {"typedargslist", "varargslist"} THEN "False"
        ELSE IF tos.nodes = <<>> THEN "IndexError"
        ELSE IF NodeIs(Last(tos.nodes), ",") THEN "True" ELSE "False"

ContextKindImportFirst(stk) ==
    LET nodes == GatherNodes(stk, <<>>)
        nts   == Nonterminals(stk)
    IN  IF "import_stmt" \in Range(nts) THEN "import"
        ELSE IF nodes /= <<>> /\ \E w \in {"as", "def", "class"} : NodeIs(Last(nodes), w)
        THEN "inherited"
        ELSE IF Last(nts) \in {"trailer", "dotted_name"} /\ nodes = <<>> THEN "IndexError"
        ELSE IF Last(nts) \in {"trailer", "dotted_name"} /\ NodeIs(Last(nodes), ".")
        THEN "trailer"
        ELSE IF is_parameter_completion(stk) = "IndexError" THEN "IndexError"
        ELSE IF is_parameter_completion(stk) = "True" THEN "params"
        ELSE "general"

\* the if/elif chain of lines 211-231: the branch taken, or the exception the
\* evaluation of its conditions raises
ContextKind(stk) ==
    LET nodes == GatherNodes(stk, <<>>)
        nts   == Nonterminals(stk)
    IN  IF nodes /= <<>> /\ \E w \in {"as", "def", "class"} : NodeIs(Last(nodes), w)
        THEN "inherited"
        ELSE IF "import_stmt" \in Range(nts) THEN "import"
        ELSE IF Last(nts) \in {"trailer", "dotted_name"} /\ nodes = <<>> THEN "IndexError"
        ELSE IF Last(nts) \in {"trailer", "dotted_name"} /\ NodeIs(Last(nodes), ".")
        THEN "trailer"
        ELSE IF is_parameter_completion(stk) = "IndexError" THEN "IndexError"
        ELSE IF is_parameter_completion(stk) = "True" THEN "params"
        ELSE "general"

\* line 218
OnlyModules(stk) ==
    ~("import_from" \in Range(Nonterminals(stk))
      /\ \E i \in 1..Len(GatherNodes(stk, <<>>)) :
             NodeIs(GatherNodes(stk, <<>>)[i], "import"))

SignatureInAnyTrailer(nodes, nts) == "trailer" \in Range(nts)

\* line 241
SignatureApplies(nodes, nts) ==
    /\ NodeIs(Last(nodes), "(") \/ NodeIs(Last(nodes), ",")
    /\ Last(nts) \in {"trailer", "arglist", "decorator"}

Param(name, kind) == [_name |-> name, kind |-> kind]

\* lines 24-31
RECURSIVE ParamNames(_)
ParamNames(params) ==
    IF params = <<>> THEN <<>>
    ELSE (IF params[1].kind \in {"POSITIONAL_OR_KEYWORD", "KEYWORD_ONLY"}
          THEN <<params[1]._name>> ELSE <<>>)
         \o ParamNames(Tail(params))

RECURSIVE get_signature_param_names(_)
get_signature_param_names(signatures) ==
    IF signatures = <<>> THEN <<>>
    ELSE ParamNames(signatures[1]) \o get_signature_param_names(Tail(signatures))

\* lines 70-75: the first node from the leaf upwards that is a Scope or a
\* Flow; the leaf itself is neither
ScopeOrFlow == {"file_input", "classdef", "funcdef", "lambdef",
                "if_stmt", "for_stmt", "while_stmt", "try_stmt", "with_stmt"}

get_flow_scope_node(ancestors) == search_ancestor(ancestors, 0, ScopeOrFlow)

\* an entry of a class filter
Member(name, api_type) == [name |-> name, api_type |-> api_type]

\* lines 407-411 for the filters that are left
RECURSIVE FilterValues(_, _)
FilterValues(filters, is_function) ==
    IF filters = <<>> THEN <<>>
    ELSE LET kept == SelectSeq(filters[1],
                               LAMBDA m : (m.api_type = "function") = is_function)
         IN  [i \in 1..Len(kept) |-> kept[i].name]
             \o FilterValues(Tail(filters), is_function)

\* lines 389-411; ancestors are those of the leaf, filters what
\* class_value.get_filters(is_instance=True) yields
complete_inherited(leaf, ancestors, filters, is_function) ==
    LET cls == search_ancestor(ancestors, 0, {"classdef"})
    IN  IF cls = 0 THEN <<>>
        ELSE IF ancestors[cls].column >= leaf.start_pos[2] THEN <<>>
        ELSE FilterValues(Tail(filters), is_function)

\* lines 267-276
Decorators(node) ==
    IF node.type = "error_node"
    THEN IF node.first.type = "decorators" THEN node.first.children
         ELSE IF node.first.type = "decorator" THEN <<node.first.value>>
         ELSE <<>>
    ELSE node.decorators

\* lines 260-280: the exception _complete_params raises, "none" when it
\* returns [], or "plugin" when it asks complete_param_names
complete_params(stk, ancestors) ==
    IF Len(stk) < 2 THEN "IndexError"
    ELSE IF stk[Len(stk) - 1].nonterminal = "parameters" /\ Len(stk) < 3
    THEN "IndexError"
    ELSE LET stack_node == IF stk[Len(stk) - 1].nonterminal = "parameters"
                           THEN stk[Len(stk) - 2] ELSE stk[Len(stk) - 1]
         IN  IF stack_node.nonterminal /= "funcdef" THEN "none"
             ELSE IF search_ancestor(ancestors, 0, {"error_node", "funcdef"}) = 0
             THEN "AttributeError"
             ELSE IF Len(stack_node.nodes) < 2 THEN "IndexError"
             ELSE "plugin"

SuppressesNothing(value) == FALSE

\* line 149
SuppressesCompletion(value) == value = "."

ReturnsWhatever(completions) == TRUE

\* line 113
ReturnsFileNames(completions) == completions /= <<>>

---------------------------------------------------------------------------
(* The inputs of a request: where the cursor is and the leaf found there.  *)

Q == "\""

LeafCase(pos, ls) == [position |-> pos, leaves |-> ls]

NameX      == Leaf("name", <<>>, <<"x">>, <<1, 0>>, <<1, 1>>)
Newline1   == Leaf("newline", <<>>, <<"\n">>, <<1, 1>>, <<2, 0>>)
StringAB   == Leaf("string", <<>>, <<Q, "a", "b", Q>>, <<1, 0>>, <<1, 4>>)
StringRaw  == Leaf("string", <<>>, <<"r", Q, "a", Q>>, <<1, 0>>, <<1, 4>>)
StringLong == Leaf("string", <<>>, <<Q, Q, Q, "a", "\n", "b", Q, Q, Q>>,
                   <<1, 0>>, <<2, 4>>)

LeafCases ==
    { \* an empty module: the end marker has no previous leaf
      LeafCase(<<1, 0>>, <<Leaf("endmarker", <<>>, <<>>, <<1, 0>>, <<1, 0>>)>>),
      \* the start of line 2
      LeafCase(<<2, 0>>, <<Leaf("endmarker", <<>>, <<>>, <<2, 0>>, <<2, 0>>),
                           Newline1, NameX>>),
      \* line 2, indented by four
      LeafCase(<<2, 4>>, <<Leaf("name", <<" ", " ", " ", " ">>, <<"y">>,
                                <<2, 4>>, <<2, 5>>),
                           Newline1, NameX>>),
      \* the start of line 2, inside the prefix of a leaf of line 3
      LeafCase(<<2, 0>>, <<Leaf("name", <<"\n", " ", " ", " ", " ">>, <<"y">>,
                                <<3, 4>>, <<3, 5>>),
                           Newline1, NameX>>),
      \* inside "ab", at its opening quote, behind its closing quote
      LeafCase(<<1, 2>>, <<StringAB>>),
      LeafCase(<<1, 0>>, <<StringAB>>),
      LeafCase(<<1, 4>>, <<StringAB>>),
      \* inside r"a" and inside its prefix
      LeafCase(<<1, 3>>, <<StringRaw>>),
      LeafCase(<<1, 1>>, <<StringRaw>>),
      \* on the second line of a triple-quoted string, inside and in the quote
      LeafCase(<<2, 1>>, <<StringLong>>),
      LeafCase(<<2, 2>>, <<StringLong>>),
      \* behind an unterminated quote: "a
      LeafCase(<<1, 2>>, <<Leaf("name", <<>>, <<"a">>, <<1, 1>>, <<1, 2>>),
                           Leaf("error_leaf", <<>>, <<Q>>, <<1, 0>>, <<1, 1>>)>>),
      \* x.y with no quote on the line
      LeafCase(<<1, 2>>, <<Leaf("operator", <<>>, <<".">>, <<1, 1>>, <<1, 2>>),
                           NameX>>) }

\* the lists of allowed transitions the grammar answers with
AllowedLists ==
    { <<Sym(kw_if), Sym(kw_for), NAME, Sym(<<"(">>)>>,    \* a statement starts
      <<NAME>>,                                           \* a name must follow
      <<Sym(kw_None), Sym(kw_await), NAME, Sym(<<"(">>)>>,\* an expression starts
      <<Sym(kw_import), Sym(<<".">>)>>,                   \* from x
      <<Sym(kw_if), Sym(kw_for), Sym(<<"+">>)>>,          \* behind an operand
      <<INDENT>> }                                        \* a block starts

Columns == {0, 4}

AncestorNodes ==
    { TreeNode(t, c, NoChild, <<>>) :
        t \in {"if_stmt", "for_stmt", "while_stmt", "try_stmt", "funcdef",
               "error_node"},
        c \in Columns }
    \cup { TreeNode("error_node", c, LeafChild(v), <<>>) :
             c \in Columns, v \in {"if", "for", "try"} }

\* every chain of at most MaxAncestors nodes below the module
AllChains == {ch \o <<Root>> : ch \in SeqsUpTo(AncestorNodes, MaxAncestors)}

---------------------------------------------------------------------------
(* The flow walk on its own: _complete_python from line 160 to line 190,   *)
(* for every chain of ancestors.                                           *)

InitFlow ==
    /\ pc = "flow"
    /\ \E lc \in LeafCases : position = lc.position /\ leaves = lc.leaves
    /\ allowed \in AllowedLists
    /\ like_name = <<>>
    /\ fuzzy = FALSE
    /\ settings = [case_insensitive_completion |-> TRUE,
                   no_completion_duplicates |-> TRUE]
    /\ string = NoString
    /\ stack = NoStack
    /\ current_line = <<>>
    /\ chain = <<>>
    /\ stmt = 0
    /\ indent = 0
    /\ completion_names = <<>>
    /\ calls = <<>>
    /\ world = NoWorld
    /\ cstack = <<>>
    /\ result = <<>>
    /\ outcome = "pending"

NextFlow == FlowEnter(AllChains) \/ FlowStep

SpecFlow == InitFlow /\ [][NextFlow]_vars

\* what the claim lets an ancestor contribute
C9_Family(node) ==
    IF node.type = "if_stmt" \/ (node.type = "error_node" /\ node.first.is_leaf
                                 /\ node.first.value = "if")
    THEN <<Sym(kw_elif), Sym(kw_else)>>
    ELSE IF node.type = "try_stmt" \/ (node.type = "error_node" /\ node.first.is_leaf
                                       /\ node.first.value = "try")
    THEN <<Sym(kw_except), Sym(kw_finally), Sym(kw_else)>>
    ELSE IF node.type = "for_stmt" \/ (node.type = "error_node" /\ node.first.is_leaf
                                       /\ node.first.value = "for")
    THEN <<Sym(kw_else)>>
    ELSE <<>>

RECURSIVE C9_Expected(_, _)
C9_Expected(ch, col) ==
    IF ch = <<>> THEN <<>>
    ELSE (IF ch[1].column = col THEN C9_Family(ch[1]) ELSE <<>>)
         \o C9_Expected(Tail(ch), col)

C9_TargetIndent ==
    IF PosLE(leaves[1].start_pos, position) /\ PosLE(position, leaves[1].end_pos)
    THEN position[2] ELSE leaves[1].start_pos[2]

C9_Walked ==
    pc = "keywords" /\ Sym(kw_if) \in Range(allowed) /\ Len(leaves) >= 2

\* C9: when 'if' is allowed and a previous leaf exists, the walk goes up to the
\* root and the keywords added are the concatenation, over all ancestors at the
\* target indent, of if -> elif, else; try -> except, finally, else;
\* for -> else (an error_node counting as its first leaf's statement); other
\* ancestors add nothing and do not stop the walk.
C9_FlowKeywords ==
    C9_Walked =>
        /\ \A j \in (stmt + 1)..Len(chain) : chain[j].type \notin FlowTypes
        /\ \E base \in AllowedLists :
               allowed = base \o C9_Expected(chain, C9_TargetIndent)

C9_Witness ==
    /\ C9_Walked
    /\ Len(chain) = 3
    /\ chain[1].type = "for_stmt" /\ chain[1].column = 4
    /\ chain[2].type = "if_stmt" /\ chain[2].column = 4
    /\ LastN(allowed, 3) = <<Sym(kw_else), Sym(kw_elif), Sym(kw_else)>>

---------------------------------------------------------------------------
(* The end of complete: lines 118-123.                                     *)

ReturnCompletions ==
    /\ pc = "filter"
    /\ result' = sorted(filter_names(completion_names, like_name, fuzzy, settings))
    /\ calls' = Append(calls, Call("filter_names", "", <<>>, <<>>))
    /\ outcome' = "returned"
    /\ pc' = "done"
    /\ UNCHANGED <<requestVars, string, stack, allowed, current_line, walkVars,
                   completion_names, heapVars>>

---------------------------------------------------------------------------
(* The candidate registry on its own: complete from line 118 on, for every *)
(* short list of raw names.                                                *)

f_a == <<"f", "a">>

RegistryNames ==
    { Name(f_a, "o1", <<>>),            \* two origins showing as fa ...
      Name(f_a, "o2", <<>>),
      Name(f_a, "o3", <<"=">>),         \* ... and one that completes differently
      Name(<<"F", "b">>, "o1", <<>>),
      Name(<<"b">>, "o1", <<>>),
      Name(<<"_", "f">>, "o1", <<>>),
      Name(<<"_", "_", "f">>, "o1", <<>>) }

RegistryLikeNames == { <<>>, <<"f">>, <<"F">>, <<"a">> }

InitRegistry ==
    /\ pc = "filter"
    /\ completion_names \in SeqsUpTo(RegistryNames, MaxNames)
    /\ like_name \in RegistryLikeNames
    /\ fuzzy \in BOOLEAN
    /\ settings \in Settings
    /\ position = <<1, 0>>
    /\ leaves = <<>>
    /\ string = NoString
    /\ stack = NoStack
    /\ allowed = <<>>
    /\ current_line = <<>>
    /\ chain = <<>>
    /\ stmt = 0
    /\ indent = 0
    /\ calls = <<>>
    /\ world = NoWorld
    /\ cstack = <<>>
    /\ result = <<>>
    /\ outcome = "pending"

NextRegistry == ReturnCompletions

SpecRegistry == InitRegistry /\ [][NextRegistry]_vars

---------------------------------------------------------------------------
(* Claims about the registry.                                              *)

\* 0 for an ordinary name, 1 for _name, 2 for __name
Group(c) ==
    IF Len(c.name) >= 2 /\ c.name[1] = "_" /\ c.name[2] = "_" THEN 2
    ELSE IF Len(c.name) >= 1 /\ c.name[1] = "_" THEN 1
    ELSE 0

ReturnedByGrammarPath ==
    pc = "done" /\ outcome = "returned" /\ "filter_names" \in CalledFns

\* C1: a list complete returns through the grammar-based path is ascending by
\* (starts with '__', starts with '_', lower-cased name): ordinary names come
\* first, then _names, then __names, each group alphabetical ignoring case.
C1_RankedAscending ==
    ReturnedByGrammarPath =>
        \A i, j \in 1..Len(result) :
            i < j =>
                /\ Group(result[i]) <= Group(result[j])
                /\ Group(result[i]) = Group(result[j]) =>
                       ~StrLess(lower(result[j].name), lower(result[i].name))

C1_Witness ==
    /\ ReturnedByGrammarPath
    /\ Len(result) = 3
    /\ {Group(result[i]) : i \in 1..3} = {0, 1, 2}
    /\ Group(Completion(completion_names[1], 0, FALSE)) = 2

MatchingIdx ==
    {i \in 1..Len(completion_names) :
        Matches(completion_names[i], like_name, fuzzy, settings)}

KeyAt(i) ==
    LET c == Completion(completion_names[i], Len(like_name), fuzzy)
    IN  <<c.name, c.complete>>

SameKeyIdx(i) == {j \in MatchingIdx : KeyAt(j) = KeyAt(i)}

FirstIdx == {i \in MatchingIdx : \A j \in SameKeyIdx(i) : i <= j}

RECURSIVE Ascending(_)
Ascending(S) ==
    IF S = {} THEN <<>>
    ELSE LET m == CHOOSE x \in S : \A y \in S : x <= y
         IN  <<m>> \o Ascending(S \ {m})

Count(s, x) == Cardinality({i \in 1..Len(s) : s[i] = x})

\* C2: with no_completion_duplicates, no two emitted candidates share the key
\* (name, complete), and every later name with a key already seen is in the
\* _same_name_completions of the first candidate emitted with that key; without
\* it every matching name is a candidate of its own and no list is appended to.
C2_Deduplication ==
    ReturnedByGrammarPath =>
        IF settings.no_completion_duplicates
        THEN /\ \A a, b \in 1..Len(result) :
                    a /= b => <<result[a].name, result[a].complete>>
                                /= <<result[b].name, result[b].complete>>
             /\ Len(result) = Cardinality(FirstIdx)
             /\ \A f \in FirstIdx :
                    \E a \in 1..Len(result) :
                        /\ result[a]._name = completion_names[f]
                        /\ LET later == Ascending(SameKeyIdx(f) \ {f})
                               same  == result[a]._same_name_completions
                           IN  /\ Len(same) = Len(later)
                               /\ \A n \in 1..Len(later) :
                                      same[n]._name = completion_names[later[n]]
        ELSE /\ Len(result) = Cardinality(MatchingIdx)
             /\ \A a \in 1..Len(result) :
                    result[a]._same_name_completions = <<>>
             /\ \A n \in RegistryNames :
                    Count([a \in 1..Len(result) |-> result[a]._name], n)
                      = Cardinality({i \in MatchingIdx : completion_names[i] = n})

C2_Witness ==
    /\ ReturnedByGrammarPath
    /\ settings.no_completion_duplicates
    /\ Len(completion_names) = 2
    /\ completion_names[1].origin /= completion_names[2].origin
    /\ Len(result) = 1
    /\ Len(result[1]._same_name_completions) = 1


---------------------------------------------------------------------------
(* Completion.complete as a whole: lines 103-123 and all of                *)
(* _complete_python.  What the collaborators outside this file answer is   *)
(* drawn from the catalogues below.                                        *)

\* like_name, fuzzy and the settings of a request
RequestOptions ==
    { [like_name |-> <<>>, fuzzy |-> FALSE, case_insensitive |-> TRUE, no_duplicates |-> TRUE],
      [like_name |-> <<"e">>, fuzzy |-> FALSE, case_insensitive |-> TRUE, no_duplicates |-> TRUE],
      [like_name |-> <<"E">>, fuzzy |-> FALSE, case_insensitive |-> FALSE, no_duplicates |-> FALSE],
      [like_name |-> <<"e">>, fuzzy |-> TRUE, case_insensitive |-> TRUE, no_duplicates |-> FALSE] }

\* what complete_file_name yields: candidates, not names
FileNameResults ==
    { <<>>, <<Completion(Name(<<"e", ".", "p", "y">>, "file", <<>>), 0, FALSE)>> }

\* the frames every stack starts with
FileInput    == Frame("file_input", <<>>)
Stmt         == Frame("stmt", <<>>)
SimpleStmt   == Frame("simple_stmt", <<>>)
SmallStmt    == Frame("small_stmt", <<>>)
CompoundStmt == Frame("compound_stmt", <<>>)

Simple(frames)   == <<FileInput, Stmt, SimpleStmt, SmallStmt>> \o frames
Compound(frames) == <<FileInput, Stmt, CompoundStmt>> \o frames

AtStatement  == <<Sym(kw_if), Sym(kw_for), Sym(kw_import), NAME, Sym(<<"(">>)>>
AtExpression == <<Sym(kw_None), Sym(kw_await), NAME, Sym(<<"(">>)>>
AtName       == <<NAME>>
BehindOperand == <<Sym(kw_if), Sym(kw_for), Sym(<<"+">>), Sym(<<".">>)>>

Grammar(stk, transitions) == [stack |-> stk, allowed |-> transitions]

\* what get_stack_at_position and _allowed_transition_names_and_token_types
\* answer for the source text given with each entry
GrammarStacks ==
    { \* an empty module: the indent of the inserted word is an error leaf
      Grammar(<<Frame("file_input", <<N("INDENT")>>)>>, AtStatement),
      \* x =
      Grammar(Simple(<<Frame("expr_stmt", <<N("x"), K("=")>>)>>), AtExpression),
      \* def ; x =
      Grammar(<<FileInput, Stmt, Frame("simple_stmt", <<K("def"), K(";")>>), SmallStmt,
                Frame("expr_stmt", <<N("x"), K("=")>>)>>, AtExpression),
      \* x   (behind an operand)
      Grammar(Simple(<<Frame("expr_stmt", <<>>), Frame("atom_expr", <<N("x")>>)>>),
              BehindOperand),
      \* if x:   and a new line
      Grammar(Compound(<<Frame("if_stmt", <<K("if"), N("x"), K(":")>>),
                         Frame("suite", <<N("\n")>>)>>), <<INDENT>>),
      \* def
      Grammar(Compound(<<Frame("funcdef", <<K("def")>>)>>), AtName),
      \* class
      Grammar(Compound(<<Frame("classdef", <<K("class")>>)>>), AtName),
      \* with x as
      Grammar(Compound(<<Frame("with_stmt", <<K("with")>>),
                         Frame("with_item", <<N("x"), K("as")>>)>>), AtExpression),
      \* import x as
      Grammar(Simple(<<Frame("import_stmt", <<>>), Frame("import_name", <<K("import")>>),
                       Frame("dotted_as_names", <<>>),
                       Frame("dotted_as_name", <<N("x"), K("as")>>)>>), AtName),
      \* import
      Grammar(Simple(<<Frame("import_stmt", <<>>), Frame("import_name", <<K("import")>>)>>),
              AtName),
      \* import x.
      Grammar(Simple(<<Frame("import_stmt", <<>>), Frame("import_name", <<K("import")>>),
                       Frame("dotted_as_names", <<>>), Frame("dotted_as_name", <<>>),
                       Frame("dotted_name", <<N("x"), K(".")>>)>>), AtName),
      \* from x
      Grammar(Simple(<<Frame("import_stmt", <<>>), Frame("import_from", <<K("from")>>),
                       Frame("dotted_name", <<N("x")>>)>>),
              <<Sym(kw_import), Sym(<<".">>)>>),
      \* from x import
      Grammar(Simple(<<Frame("import_stmt", <<>>),
                       Frame("import_from", <<K("from"), N("x"), K("import")>>)>>),
              <<NAME, Sym(<<"(">>), Sym(<<"*">>)>>),
      \* x.
      Grammar(Simple(<<Frame("expr_stmt", <<>>), Frame("atom_expr", <<N("x")>>),
                       Frame("trailer", <<K(".")>>)>>), AtName),
      \* @x.
      Grammar(Compound(<<Frame("decorated", <<>>), Frame("decorators", <<>>),
                         Frame("decorator", <<K("@")>>),
                         Frame("dotted_name", <<N("x"), K(".")>>)>>), AtName),
      \* f(x.
      Grammar(Simple(<<Frame("expr_stmt", <<>>), Frame("atom_expr", <<N("f")>>),
                       Frame("trailer", <<K("(")>>), Frame("atom_expr", <<N("x")>>),
                       Frame("trailer", <<K(".")>>)>>), AtName),
      \* f(
      Grammar(Simple(<<Frame("expr_stmt", <<>>), Frame("atom_expr", <<N("f")>>),
                       Frame("trailer", <<K("(")>>)>>), AtExpression),
      \* f(a,
      Grammar(Simple(<<Frame("expr_stmt", <<>>), Frame("atom_expr", <<N("f")>>),
                       Frame("trailer", <<K("(")>>),
                       Frame("arglist", <<N("a"), K(",")>>)>>), AtExpression),
      \* f(a=
      Grammar(Simple(<<Frame("expr_stmt", <<>>), Frame("atom_expr", <<N("f")>>),
                       Frame("trailer", <<K("(")>>),
                       Frame("argument", <<N("a"), K("=")>>)>>), AtExpression),
      \* @d(
      Grammar(Compound(<<Frame("decorated", <<>>), Frame("decorators", <<>>),
                         Frame("decorator", <<K("@"), N("d"), K("(")>>)>>), AtExpression),
      \* x[
      Grammar(Simple(<<Frame("expr_stmt", <<>>), Frame("atom_expr", <<N("x")>>),
                       Frame("trailer", <<K("[")>>)>>), AtExpression),
      \* x[a,
      Grammar(Simple(<<Frame("expr_stmt", <<>>), Frame("atom_expr", <<N("x")>>),
                       Frame("trailer", <<K("[")>>),
                       Frame("subscriptlist", <<N("a"), K(",")>>)>>), AtExpression),
      \* (
      Grammar(Simple(<<Frame("expr_stmt", <<>>), Frame("atom", <<K("(")>>)>>), AtExpression),
      \* lambda
      Grammar(Simple(<<Frame("expr_stmt", <<>>), Frame("lambdef", <<K("lambda")>>)>>),
              <<NAME, Sym(<<":">>), Sym(<<"*">>)>>),
      \* lambda a,
      Grammar(Simple(<<Frame("expr_stmt", <<>>), Frame("lambdef", <<K("lambda")>>),
                       Frame("varargslist", <<N("a"), K(",")>>)>>),
              <<NAME, Sym(<<":">>), Sym(<<"*">>)>>),
      \* def f(
      Grammar(Compound(<<Frame("funcdef", <<K("def"), N("f")>>),
                         Frame("parameters", <<K("(")>>)>>),
              <<NAME, Sym(<<")">>), Sym(<<"*">>)>>),
      \* def f(a,
      Grammar(Compound(<<Frame("funcdef", <<K("def"), N("f")>>),
                         Frame("parameters", <<K("(")>>),
                         Frame("typedargslist", <<N("a"), K(",")>>)>>),
              <<NAME, Sym(<<"*">>)>>),
      \* def f(a=
      Grammar(Compound(<<Frame("funcdef", <<K("def"), N("f")>>),
                         Frame("parameters", <<K("(")>>),
                         Frame("typedargslist", <<N("a"), K("=")>>)>>), AtExpression) }

\* the values of the error leaves get_stack_at_position gives up on
ErrorLeafValues == {".", ")", Q}

\* the text of the line of the cursor, up to the cursor
Lines ==
    { <<>>,
      <<" ">>, <<"x">>, <<".">>,
      <<"x", ".">>, <<"x", ";">>, <<"a", "b">>,
      <<".", ".", ".">>, <<"x", "=", " ">>, <<"x", ".", "y">>,
      <<" ", " ", " ", " ">>, <<"x", ".", ".", ".">>, <<"f", "(", "a", ",">>,
      <<"x", " ", "=", "\t">> }

\* the ancestors of the previous leaf, for the flow walk
RequestChains ==
    { <<Root>>,
      <<TreeNode("if_stmt", 0, NoChild, <<>>), Root>>,
      <<TreeNode("for_stmt", 4, NoChild, <<>>),
        TreeNode("error_node", 0, LeafChild("try"), <<>>), Root>>,
      <<TreeNode("if_stmt", 4, NoChild, <<>>),
        TreeNode("for_stmt", 0, NoChild, <<>>), Root>> }

\* the ancestors of the leaf at the cursor
LeafAncestors ==
    { <<Root>>,
      <<TreeNode("funcdef", 0, NoChild, <<>>), Root>>,
      <<TreeNode("if_stmt", 4, NoChild, <<>>),
        TreeNode("funcdef", 4, NoChild, <<"d">>),
        TreeNode("classdef", 0, NoChild, <<>>), Root>>,
      <<TreeNode("classdef", 4, NoChild, <<>>), Root>>,
      <<TreeNode("error_node", 0, Child(FALSE, "decorators", "", <<"d1", "d2">>), <<>>), Root>>,
      <<TreeNode("error_node", 0, Child(FALSE, "decorator", "d1", <<>>), <<>>), Root>>,
      <<TreeNode("error_node", 0, LeafChild("def"), <<>>), Root>> }

\* what get_global_filters offers, innermost first
GlobalResults ==
    { <<>>,
      <<Name(<<"e", "x">>, "local", <<>>), Name(<<"_", "e">>, "local", <<>>),
        Name(<<"e", "x">>, "builtin", <<>>)>> }

\* class_value.get_filters(is_instance=True): the class's own dictionary,
\* then those of its bases
ClassFilters ==
    << <<Member(Name(<<"o", "w", "n">>, "class", <<>>), "function")>>,
       <<Member(Name(<<"e", "m">>, "base", <<>>), "function"),
         Member(Name(<<"e", "a">>, "base", <<>>), "instance")>> >>

\* Importer.completion_names
ImportResults(only_modules) ==
    IF only_modules
    THEN {<<>>, <<Name(<<"e", "o", "s">>, "module", <<>>)>>}
    ELSE {<<>>, <<Name(<<"e", "o", "s">>, "module", <<>>),
                  Name(<<"e", "n", "v">>, "attribute", <<>>)>>}

\* what a plugin behind complete_param_names may answer; line 79 itself
\* answers []
ParamResults == {<<>>, <<Name(<<"e", "p">>, "param", <<>>)>>}

\* what the signatures callback answers
SignatureResults ==
    { <<>>,
      << <<Param(Name(<<"e", "k">>, "signature", <<"=">>), "POSITIONAL_OR_KEYWORD"),
           Param(Name(<<"e", "v">>, "signature", <<"=">>), "VAR_POSITIONAL"),
           Param(Name(<<"e", "o">>, "signature", <<"=">>), "KEYWORD_ONLY"),
           Param(Name(<<"e", "s">>, "signature", <<"=">>), "POSITIONAL_ONLY")>>,
         <<Param(Name(<<"e", "k">>, "signature", <<"=">>), "KEYWORD_ONLY")>> >> }

\* a value without __getattr__, one whose __getattr__ hands over to another
\* value, and one whose __getattr__ is return getattr(self, name)
RequestWorlds ==
    { World({}, {}, NoFunctions, NoFunctions, <<"v3">>, <<"v1">>),
      World(Values, {}, [NoFunctions EXCEPT !["v1"] = <<<<Delegating(<<"v2">>)>>>>],
            NoFunctions, <<>>, <<"v1">>),
      World(Values, {}, [NoFunctions EXCEPT !["v1"] = <<<<Delegating(<<"v1">>)>>>>],
            NoFunctions, <<>>, <<"v1">>) }

\* line 105
ExtractString ==
    /\ pc = "complete"
    /\ string' = extract_string_while_in_string(leaves, position)
    /\ calls' = Append(calls, Call("extract_string", "", <<>>, <<>>))
    /\ pc' = IF string'.found THEN "file_name" ELSE "python"
    /\ UNCHANGED <<requestVars, stack, allowed, current_line, walkVars,
                   completion_names, heapVars, result, outcome>>

\* lines 106-114
CompleteFileName ==
    /\ pc = "file_name"
    /\ \E completions \in FileNameResults :
          /\ calls' = Append(calls, Call("complete_file_name", "", completions, <<>>))
          /\ IF ReturnsFileNames(completions)
             THEN /\ result' = completions
                  /\ outcome' = "returned"
                  /\ pc' = "done"
             ELSE /\ pc' = "python"
                  /\ UNCHANGED <<result, outcome>>
    /\ UNCHANGED <<requestVars, string, stack, allowed, current_line, walkVars,
                   completion_names, heapVars>>

\* lines 140-146 and 157-158: the stack and the allowed transitions
GetStack ==
    /\ pc = "python"
    /\ \E g \in GrammarStacks :
          /\ stack' = g.stack
          /\ allowed' = g.allowed
    /\ calls' = Append(calls, Call("get_stack", "", <<>>, <<>>))
    /\ pc' = "flow"
    /\ UNCHANGED <<requestVars, string, current_line, walkVars, completion_names,
                   heapVars, result, outcome>>

\* lines 147-155: get_stack_at_position raises OnErrorLeaf
GetStackOnErrorLeaf ==
    /\ pc = "python"
    /\ \E value \in ErrorLeafValues, ancestors \in LeafAncestors, names \in GlobalResults :
          IF SuppressesCompletion(value)
          THEN /\ completion_names' = <<>>
               /\ calls' = Append(calls, Call("get_stack", "OnErrorLeaf", <<>>, <<value>>))
          ELSE /\ completion_names' = names
               /\ calls' = calls \o
                    <<Call("get_stack", "OnErrorLeaf", <<>>, <<value>>),
                      Call("global_scope", ancestors[get_flow_scope_node(ancestors)].type,
                           names, <<>>)>>
    /\ stack' = NoStack
    /\ pc' = "filter"
    /\ UNCHANGED <<requestVars, string, allowed, current_line, walkVars,
                   heapVars, result, outcome>>

\* lines 192-196
HarvestKeywords ==
    /\ pc = "keywords"
    /\ \E line \in Lines :
          /\ Len(line) = position[2]
          /\ current_line' = line
          /\ IF HarvestsKeywords(line)
             THEN /\ completion_names' = complete_keywords(allowed)
                  /\ calls' = Append(calls, Call("keywords", "", complete_keywords(allowed), <<>>))
             ELSE /\ completion_names' = <<>>
                  /\ UNCHANGED calls
    /\ pc' = "dispatch"
    /\ UNCHANGED <<requestVars, string, stack, allowed, walkVars, heapVars,
                   result, outcome>>

\* lines 198-199 and 245: neither NAME nor INDENT is allowed
NamesNotAllowed ==
    /\ pc = "dispatch"
    /\ ~NamesAllowed(allowed)
    /\ pc' = "filter"
    /\ UNCHANGED <<requestVars, string, stack, allowed, current_line, walkVars,
                   completion_names, calls, heapVars, result, outcome>>

\* lines 202-229: the conditions of the if/elif chain
Dispatch ==
    /\ pc = "dispatch"
    /\ NamesAllowed(allowed)
    /\ IF ContextKind(stack) = "IndexError"
       THEN outcome' = "IndexError" /\ pc' = "done"
       ELSE pc' = ContextKind(stack) /\ UNCHANGED outcome
    /\ UNCHANGED <<requestVars, string, stack, allowed, current_line, walkVars,
                   completion_names, calls, heapVars, result>>

\* line 214: what was gathered so far is not part of what is returned
AfterAsDefClass ==
    /\ pc = "inherited"
    /\ \E ancestors \in LeafAncestors :
          LET names == complete_inherited(leaves[1], ancestors, ClassFilters, TRUE)
          IN  /\ completion_names' = names
              /\ calls' = Append(calls, Call("inherited", "function", names, <<>>))
    /\ pc' = "filter"
    /\ UNCHANGED <<requestVars, string, stack, allowed, current_line, walkVars,
                   heapVars, result, outcome>>

\* lines 215-223
ImportBranch ==
    /\ pc = "import"
    /\ \E names \in ImportResults(OnlyModules(stack)) :
          /\ completion_names' = completion_names \o names
          /\ calls' = Append(calls, Call("import",
                                         IF OnlyModules(stack) THEN "only_modules" ELSE "all",
                                         names, <<>>))
    /\ pc' = "signature"
    /\ UNCHANGED <<requestVars, string, stack, allowed, current_line, walkVars,
                   heapVars, result, outcome>>

\* lines 227-228 and _complete_params
ParamBranch ==
    /\ pc = "params"
    /\ \E ancestors \in LeafAncestors, names \in ParamResults :
          LET r == complete_params(stack, ancestors)
          IN  IF r \in {"IndexError", "AttributeError"}
              THEN /\ calls' = Append(calls, Call("params", r, <<>>, <<>>))
                   /\ outcome' = r
                   /\ pc' = "done"
                   /\ UNCHANGED completion_names
              ELSE IF r = "none"
              THEN /\ calls' = Append(calls, Call("params", r, <<>>, <<>>))
                   /\ pc' = "signature"
                   /\ UNCHANGED <<completion_names, outcome>>
              ELSE /\ completion_names' = completion_names \o names
                   /\ calls' = Append(calls,
                        Call("params", r, names,
                             Decorators(ancestors[search_ancestor(ancestors, 0,
                                                    {"error_node", "funcdef"})])))
                   /\ pc' = "signature"
                   /\ UNCHANGED outcome
    /\ UNCHANGED <<requestVars, string, stack, allowed, current_line, walkVars,
                   heapVars, result>>

\* lines 229-231
GeneralBranch ==
    /\ pc = "general"
    /\ \E ancestors \in LeafAncestors, names \in GlobalResults :
          LET inherited == complete_inherited(leaves[1], ancestors, ClassFilters, FALSE)
          IN  /\ completion_names' = (completion_names \o names) \o inherited
              /\ calls' = calls \o
                    <<Call("global_scope", ancestors[get_flow_scope_node(ancestors)].type,
                           names, <<>>),
                      Call("inherited", "non_function", inherited, <<>>)>>
    /\ pc' = "signature"
    /\ UNCHANGED <<requestVars, string, stack, allowed, current_line, walkVars,
                   heapVars, result, outcome>>

\* lines 241-245
Signatures ==
    /\ pc = "signature"
    /\ LET nodes == GatherNodes(stack, <<>>)
       IN  IF nodes = <<>>
           THEN /\ outcome' = "IndexError"
                /\ pc' = "done"
                /\ UNCHANGED <<completion_names, calls>>
           ELSE /\ \E signatures \in SignatureResults :
                      IF SignatureApplies(nodes, Nonterminals(stack))
                      THEN /\ completion_names' =
                                completion_names \o get_signature_param_names(signatures)
                           /\ calls' = Append(calls,
                                Call("signatures", "", get_signature_param_names(signatures),
                                     signatures))
                      ELSE UNCHANGED <<completion_names, calls>>
                /\ pc' = "filter"
                /\ UNCHANGED outcome
    /\ UNCHANGED <<requestVars, string, stack, allowed, current_line, walkVars,
                   heapVars, result>>

\* a Completion object right after __init__, lines 85-101
Init ==
    /\ pc = "complete"
    /\ \E lc \in LeafCases : position = lc.position /\ leaves = lc.leaves
    /\ \E o \in RequestOptions :
          /\ like_name = o.like_name
          /\ fuzzy = o.fuzzy
          /\ settings = [case_insensitive_completion |-> o.case_insensitive,
                         no_completion_duplicates |-> o.no_duplicates]
    /\ string = NoString
    /\ stack = NoStack
    /\ allowed = <<>>
    /\ current_line = <<>>
    /\ chain = <<>>
    /\ stmt = 0
    /\ indent = 0
    /\ completion_names = <<>>
    /\ calls = <<>>
    /\ world = NoWorld
    /\ cstack = <<>>
    /\ result = <<>>
    /\ outcome = "pending"

Next ==
    \/ ExtractString
    \/ CompleteFileName
    \/ GetStack
    \/ GetStackOnErrorLeaf
    \/ FlowEnter(RequestChains)
    \/ FlowStep
    \/ HarvestKeywords
    \/ NamesNotAllowed
    \/ Dispatch
    \/ AfterAsDefClass
    \/ ImportBranch
    \/ TrailerEnter(RequestWorlds)
    \/ ValuesLoop
    \/ GetattrBody
    \/ ValuesReturn
    \/ ParamBranch
    \/ GeneralBranch
    \/ Signatures
    \/ ReturnCompletions

Spec == Init /\ [][Next]_vars

---------------------------------------------------------------------------
(* What is claimed of complete as a whole.                                 *)

CallFns == [i \in 1..Len(calls) |-> calls[i].fn]

CallOf(fn) == calls[CHOOSE i \in 1..Len(calls) : calls[i].fn = fn]

\* the parse stack was computed and no OnErrorLeaf was raised
StackComputed == "get_stack" \in CalledFns /\ CallOf("get_stack").arg = ""

LastNodeIn(S) ==
    LET nodes == GatherNodes(stack, <<>>)
    IN  nodes /= <<>> /\ \E w \in S : NodeIs(Last(nodes), w)

C3_OnErrorLeaf ==
    pc = "done" /\ "get_stack" \in CalledFns /\ CallOf("get_stack").arg = "OnErrorLeaf"

C3_Resolvers ==
    SelectSeq(CallFns, LAMBDA f : f \in {"keywords", "global_scope", "inherited",
                                         "import", "trailer", "params", "signatures"})

\* C3: when get_stack_at_position raises OnErrorLeaf the request still
\* returns; for the value '.' no resolver is called and the names and the
\* result are empty; for every other value the only resolver called is
\* _complete_global_scope and the names are exactly what it returned.
C3_ErrorLeafRecovery ==
    C3_OnErrorLeaf =>
        /\ outcome = "returned"
        /\ IF CallOf("get_stack").data = <<".">>
           THEN C3_Resolvers = <<>> /\ completion_names = <<>> /\ result = <<>>
           ELSE /\ C3_Resolvers = <<"global_scope">>
                /\ completion_names = CallOf("global_scope").ret

C3_Witness ==
    /\ C3_OnErrorLeaf
    /\ CallOf("get_stack").data = <<")">>
    /\ C3_Resolvers = <<"global_scope">>
    /\ completion_names /= <<>>
    /\ result /= <<>>

\* C4: no request ends in a raised error, whatever stack the grammar
\* delivers and whatever the ancestors of the leaf are.
C4_NeverRaises == outcome \in {"pending", "returned"}

\* C5: the string check is the first thing complete does; when a string was
\* recovered and complete_file_name yields something, that list is the
\* result and nothing else is called, the stack is never computed; otherwise
\* the next call is get_stack_at_position and a returned result went
\* through filter_names.
C5_StringFastPath ==
    pc = "done" =>
        /\ CallFns[1] = "extract_string"
        /\ string.found <=> "complete_file_name" \in CalledFns
        /\ string.found => CallFns[2] = "complete_file_name"
        /\ IF string.found /\ CallOf("complete_file_name").ret /= <<>>
           THEN /\ outcome = "returned"
                /\ result = CallOf("complete_file_name").ret
                /\ Len(calls) = 2
                /\ stack = NoStack /\ allowed = <<>> /\ completion_names = <<>>
           ELSE /\ Len(calls) > (IF string.found THEN 2 ELSE 1)
                /\ CallFns[IF string.found THEN 3 ELSE 2] = "get_stack"
                /\ outcome = "returned" => CallFns[Len(calls)] = "filter_names"

C5_Witness ==
    /\ pc = "done"
    /\ string.found
    /\ string.text = <<"a">>
    /\ CallOf("complete_file_name").ret /= <<>>
    /\ result = CallOf("complete_file_name").ret

C6_Harvests(line) ==
    \/ line = <<>>
    \/ /\ Last(line) \in {" ", "\t", ".", ";"}
       /\ Len(line) < 3 \/ SubSeq(line, Len(line) - 2, Len(line)) /= <<".", ".", ".">>

C6_Keywords ==
    {allowed[i].v : i \in {j \in 1..Len(allowed) : allowed[j].str /\ isalpha(allowed[j].v)}}

C6_ReturnedKeywords ==
    {completion_names[i].string_name :
        i \in {j \in 1..Len(completion_names) : completion_names[j].origin = "keyword"}}

\* _complete_python has returned its names, the stack having been computed
C6_PythonReturned == pc = "filter" /\ StackComputed

\* C6 as stated: when the line up to the cursor is empty or ends in a space,
\* a tab, '.' or ';' and not in '...', every alphabetic string among the
\* allowed transitions is among the names _complete_python returns,
\* whichever step is taken afterwards.
C6_KeywordsAdditive ==
    (C6_PythonReturned /\ C6_Harvests(current_line))
        => C6_Keywords \subseteq C6_ReturnedKeywords

\* C6, amended: the same, unless NAME or INDENT is allowed and the last
\* matched node is 'as', 'def' or 'class'.
C6_KeywordsKept ==
    (/\ C6_PythonReturned
     /\ C6_Harvests(current_line)
     /\ ~(NamesAllowed(allowed) /\ LastNodeIn({"as", "def", "class"})))
        => C6_Keywords \subseteq C6_ReturnedKeywords

C6_Witness ==
    /\ C6_PythonReturned
    /\ C6_Harvests(current_line)
    /\ current_line /= <<>>
    /\ ~NamesAllowed(allowed)
    /\ {kw_if, kw_elif, kw_else} \subseteq C6_ReturnedKeywords

C7_Resolvers ==
    SelectSeq(CallFns, LAMBDA f : f \in {"global_scope", "inherited", "import",
                                         "trailer", "params"})

C7_Expected ==
    IF LastNodeIn({"as", "def", "class"}) THEN <<"inherited">>
    ELSE IF \E i \in 1..Len(stack) : stack[i].nonterminal = "import_stmt" THEN <<"import">>
    ELSE IF Last(stack).nonterminal \in {"trailer", "dotted_name"} /\ LastNodeIn({"."})
    THEN <<"trailer">>
    ELSE IF is_parameter_completion(stack) = "True" THEN <<"params">>
    ELSE <<"global_scope", "inherited">>

\* C7: when NAME or INDENT is allowed, the resolvers called are those of
\* exactly one branch, the first in the order as/def/class (inherited
\* functions only), import, trailer dot, parameter position, general (scope
\* names, then inherited non-functions); when neither is allowed no resolver
\* is called and only keywords are returned.
C7_OneContextKind ==
    (pc = "done" /\ StackComputed) =>
        IF NamesAllowed(allowed)
        THEN /\ C7_Resolvers = C7_Expected
             /\ "inherited" \in CalledFns =>
                   CallOf("inherited").arg =
                       (IF C7_Expected = <<"inherited">> THEN "function" ELSE "non_function")
        ELSE /\ C7_Resolvers = <<>>
             /\ \A i \in 1..Len(completion_names) : completion_names[i].origin = "keyword"

C7_Witness ==
    /\ pc = "done"
    /\ StackComputed
    /\ NamesAllowed(allowed)
    /\ \E i \in 1..Len(stack) : stack[i].nonterminal = "import_stmt"
    /\ Last(stack).nonterminal = "dotted_name"
    /\ LastNodeIn({"."})
    /\ C7_Resolvers = <<"import">>
    /\ outcome = "returned"

C8_Condition ==
    /\ LastNodeIn({"(", ","})
    /\ Last(stack).nonterminal \in {"trailer", "arglist", "decorator"}

C8_Steps5to8 ==
    /\ StackComputed
    /\ C7_Resolvers \in {<<"import">>, <<"trailer">>, <<"params">>,
                         <<"global_scope", "inherited">>}

C8_Named(signatures) ==
    {<<i, j>> \in (1..Len(signatures)) \X (1..4) :
        /\ j <= Len(signatures[i])
        /\ signatures[i][j].kind \in {"POSITIONAL_OR_KEYWORD", "KEYWORD_ONLY"}}

\* C8: after the import, trailer, parameter or general branch the signatures
\* callback is called exactly when the last matched node is '(' or ',' and
\* the innermost nonterminal is trailer, arglist or decorator; the names of
\* its POSITIONAL_OR_KEYWORD and KEYWORD_ONLY parameters are then the last
\* names of the list; on the string fast path and after as/def/class it is
\* not called.
C8_SignatureAugmentation ==
    pc = "done" =>
        /\ C8_Steps5to8 => ("signatures" \in CalledFns <=> C8_Condition)
        /\ ~C8_Steps5to8 => "signatures" \notin CalledFns
        /\ "signatures" \in CalledFns =>
              LET c == CallOf("signatures")
              IN  /\ Len(c.ret) = Cardinality(C8_Named(c.data))
                  /\ \A p \in C8_Named(c.data) : c.data[p[1]][p[2]]._name \in Range(c.ret)
                  /\ Len(completion_names) >= Len(c.ret)
                  /\ SliceFrom(completion_names, Len(completion_names) - Len(c.ret)) = c.ret
                  /\ CallFns[Len(calls) - 1] = "signatures"

C8_Witness ==
    /\ pc = "done"
    /\ outcome = "returned"
    /\ StackComputed
    /\ Last(stack).nonterminal = "arglist"
    /\ C7_Resolvers = <<"global_scope", "inherited">>
    /\ "signatures" \in CalledFns
    /\ Len(CallOf("signatures").ret) = 3
    /\ Len(completion_names) > 3

=============================================================================
